---- MODULE Spec2Model ----
(***************************************************************************)
(* Authorization and input-safety layer of world-builder:                  *)
(*   - PermissionService   (src/src/services/PermissionService.ts)         *)
(*   - ValidationService   (src/block-editor.js, lines 380-519)            *)
(*   - SecureComponent / useSecureData gate (src/unnamed/part_000)         *)
(***************************************************************************)
EXTENDS Integers, Sequences, FiniteSets, TLC

VARIABLES
    user,       \* SpecPerm: the User record the engine is called with
    call,       \* SpecPerm: the last engine call, its arguments and its result
    uri,        \* SpecUri: the href/src value under test
    uriOk,      \* SpecUri: "untested" | "accepted" | "rejected"
    state,      \* gate: SecureComponentState (isAuthorized, validatedData, error, isLoading)
    props,      \* gate: the inputs of the most recent effect run
    pending,    \* gate: attempts suspended at `await validateAndSanitize(...)`
    attempts,   \* gate: number of effect runs so far
    sanitizeCalls, \* gate: number of validateAndSanitize invocations so far
    pipe        \* SpecPipe: one run of validateAndSanitize, step by step

vars == <<user, call, uri, uriOk, state, props, pending, attempts, sanitizeCalls, pipe>>

(***************************************************************************)
(* Bounds                                                                  *)
(***************************************************************************)
MaxPerms == 2      \* longest user.permissions list
MaxReq == 2        \* longest requiredPermissions list handed to hasAnyPermission
MaxItems == 2      \* longest items list handed to filterByPermissions

\* sequences over S of length 0..n
SeqUpTo(S, n) == UNION {[1..k -> S] : k \in 0..n}

(***************************************************************************)
(* types/security.ts                                                       *)
(***************************************************************************)
Undefined == "undefined"          \* an omitted optional property

\* PermissionAction: the six actions of the type; the model draws from all six
PermissionAction == {"create", "read", "update", "delete", "execute", "configure"}
\* PermissionScope
PermissionScope == {"own", "project", "global"}

\* resources and actions the inputs are drawn from
Resources == {"docs", "*"}
Actions == {"read", "configure"}

\* Permission: {resource, action, scope?}
Permission == [resource : Resources, action : Actions,
               scope : PermissionScope \cup {Undefined}]

\* User: {id, permissions, isActive}
User == [id : {"u1"}, isActive : BOOLEAN, permissions : SeqUpTo(Permission, MaxPerms)]

\* SecurityError(message, code, details)
SecurityError(code, details) == [code |-> code, details |-> details]

(***************************************************************************)
(* PermissionService                                                       *)
(***************************************************************************)
\* `!s` for an optional scope string
Falsy(s) == s = Undefined \/ s = ""

\* variant: an omitted scope on either side is taken as a match
scopeMatches_eitherOmitted(userScope, requiredScope) ==
    IF Falsy(userScope) \/ Falsy(requiredScope) THEN TRUE
    ELSE IF userScope = "global" THEN TRUE
    ELSE IF userScope = "project" /\ (requiredScope = "project" \/ requiredScope = "own") THEN TRUE
    ELSE IF userScope = "own" /\ requiredScope = "own" THEN TRUE
    ELSE userScope = requiredScope

\* variant: the global clause is missing
scopeMatches_noGlobal(userScope, requiredScope) ==
    IF Falsy(userScope) /\ Falsy(requiredScope) THEN TRUE
    ELSE IF userScope = "project" /\ (requiredScope = "project" \/ requiredScope = "own") THEN TRUE
    ELSE IF userScope = "own" /\ requiredScope = "own" THEN TRUE
    ELSE userScope = requiredScope

\* variant: the comparison runs the wrong way round (required against granted)
scopeMatches_reversed(userScope, requiredScope) ==
    IF Falsy(userScope) /\ Falsy(requiredScope) THEN TRUE
    ELSE IF requiredScope = "global" THEN TRUE
    ELSE IF requiredScope = "project" /\ (userScope = "project" \/ userScope = "own") THEN TRUE
    ELSE IF requiredScope = "own" /\ userScope = "own" THEN TRUE
    ELSE userScope = requiredScope

\* variant: no hierarchy, the two scopes must be the same
scopeMatches_exactOnly(userScope, requiredScope) ==
    IF Falsy(userScope) /\ Falsy(requiredScope) THEN TRUE
    ELSE userScope = requiredScope

scopeMatches(userScope, requiredScope) ==
    IF Falsy(userScope) /\ Falsy(requiredScope) THEN TRUE
    ELSE IF userScope = "global" THEN TRUE
    ELSE IF userScope = "project" /\ (requiredScope = "project" \/ requiredScope = "own") THEN TRUE
    ELSE IF userScope = "own" /\ requiredScope = "own" THEN TRUE
    ELSE userScope = requiredScope

\* variant: "*" on either side is expanded as a wildcard resource
permissionsMatch_wildcard(userPermission, requiredPermission) ==
    IF /\ userPermission.resource # requiredPermission.resource
       /\ userPermission.resource # "*"
       /\ requiredPermission.resource # "*" THEN FALSE
    ELSE IF userPermission.action # requiredPermission.action THEN FALSE
    ELSE scopeMatches(userPermission.scope, requiredPermission.scope)

permissionsMatch(userPermission, requiredPermission) ==
    IF userPermission.resource # requiredPermission.resource THEN FALSE
    ELSE IF userPermission.action # requiredPermission.action THEN FALSE
    ELSE scopeMatches(userPermission.scope, requiredPermission.scope)

\* variant: the isActive test is missing
hasPermission_ignoresActive(u, permission) ==
    \E i \in 1..Len(u.permissions) : permissionsMatch(u.permissions[i], permission)

hasPermission(u, permission) ==
    IF ~u.isActive THEN FALSE
    ELSE \E i \in 1..Len(u.permissions) : permissionsMatch(u.permissions[i], permission)

hasAnyPermission(u, permissions) ==
    \E i \in 1..Len(permissions) : hasPermission(u, permissions[i])

\* {...requiredPermission, scope}
WithScope(requiredPermission, scope) ==
    [resource |-> requiredPermission.resource, action |-> requiredPermission.action,
     scope |-> scope]

\* variant: the predicate is inverted, it keeps what the user may not access
filterKeeps_inverted(u, item, requiredPermission) ==
    IF hasPermission(u, WithScope(requiredPermission, "global")) THEN FALSE
    ELSE IF hasPermission(u, WithScope(requiredPermission, "project")) THEN FALSE
    ELSE ~hasPermission(u, WithScope(requiredPermission, "own"))

\* the predicate handed to items.filter: it ignores the item
filterKeeps(u, item, requiredPermission) ==
    IF hasPermission(u, WithScope(requiredPermission, "global")) THEN TRUE
    ELSE IF hasPermission(u, WithScope(requiredPermission, "project")) THEN TRUE
    ELSE hasPermission(u, WithScope(requiredPermission, "own"))

filterByPermissions(u, items, requiredPermission) ==
    LET keep(item) == filterKeeps(u, item, requiredPermission)
    IN  SelectSeq(items, keep)

NoError == [code |-> "none", details |-> <<>>]

\* variant: the details name the permission's resource, not the argument
requirePermission_resourceOfPermission(u, permission, resource) ==
    IF ~hasPermission(u, permission)
    THEN SecurityError("PERMISSION_DENIED",
                       [userId |-> u.id, requiredPermission |-> permission,
                        resource |-> permission.resource])
    ELSE NoError

\* result: the SecurityError thrown, or NoError when it returns normally
requirePermission(u, permission, resource) ==
    IF ~hasPermission(u, permission)
    THEN SecurityError("PERMISSION_DENIED",
                       [userId |-> u.id, requiredPermission |-> permission,
                        resource |-> resource])
    ELSE NoError

getPermissionsForResource(u, resource) ==
    LET onResource(permission) == permission.resource = resource
    IN  SelectSeq(u.permissions, onResource)

AdminGrant == [resource |-> "*", action |-> "configure", scope |-> "global"]

isGlobalAdmin(u) == hasPermission(u, AdminGrant)

(***************************************************************************)
(* ValidationService.sanitizeHtml: the URI allow-list                      *)
(* A value is a sequence of one-character strings.                         *)
(***************************************************************************)
LowerLetters == <<"a", "b", "c", "d", "e", "f", "g", "h", "i", "j", "k", "l", "m", "n", "o", "p", "q", "r", "s", "t", "u", "v", "w", "x", "y", "z">>
UpperLetters == <<"A", "B", "C", "D", "E", "F", "G", "H", "I", "J", "K", "L", "M", "N", "O", "P", "Q", "R", "S", "T", "U", "V", "W", "X", "Y", "Z">>
LetterSet == {LowerLetters[i] : i \in 1..26}

\* the /i flag: letters compare without case
Lower(c) == IF \E i \in 1..26 : UpperLetters[i] = c
            THEN LowerLetters[CHOOSE i \in 1..26 : UpperLetters[i] = c]
            ELSE c

\* [a-z] under /i
IsAlpha(c) == Lower(c) \in LetterSet
\* [a-z+.\-] under /i
IsSchemeChar(c) == IsAlpha(c) \/ c \in {"+", ".", "-"}

\* (?:f|ht)tps? | mailto | tel | callto | cid | xmpp | xxx
RegexSchemes == {<<"f", "t", "p">>,
                 <<"f", "t", "p", "s">>,
                 <<"h", "t", "t", "p">>,
                 <<"h", "t", "t", "p", "s">>,
                 <<"m", "a", "i", "l", "t", "o">>,
                 <<"t", "e", "l">>,
                 <<"c", "a", "l", "l", "t", "o">>,
                 <<"c", "i", "d">>,
                 <<"x", "m", "p", "p">>,
                 <<"x", "x", "x">>}

\* s begins with the word w (any case) followed by ":"
StartsWithSchemeColon(s, w) ==
    /\ Len(s) >= Len(w) + 1
    /\ \A i \in 1..Len(w) : Lower(s[i]) = w[i]
    /\ s[Len(w) + 1] = ":"

\* length of the longest prefix matched by [a-z+.\-]+ (0 if none)
RunLen(s) ==
    CHOOSE k \in 0..Len(s) :
        /\ \A i \in 1..k : IsSchemeChar(s[i])
        /\ (k < Len(s) => ~IsSchemeChar(s[k + 1]))

\* variant: the class after the run is [^a-z+.\-], the ":" is not excluded
ALLOWED_URI_REGEXP_colonNotExcluded(s) ==
    \/ \E w \in RegexSchemes : StartsWithSchemeColon(s, w)
    \/ Len(s) >= 1 /\ ~IsAlpha(s[1])
    \/ RunLen(s) >= 1

\* /^(?:(?:(?:f|ht)tps?|mailto|tel|callto|cid|xmpp|xxx):|[^a-z]|[a-z+.\-]+(?:[^a-z+.\-:]|$))/i
\* In the third alternative only the longest run can be followed by a
\* character outside [a-z+.\-], so backtracking adds no match.
ALLOWED_URI_REGEXP(s) ==
    \/ \E w \in RegexSchemes : StartsWithSchemeColon(s, w)
    \/ Len(s) >= 1 /\ ~IsAlpha(s[1])
    \/ RunLen(s) >= 1 /\ (RunLen(s) = Len(s) \/ s[RunLen(s) + 1] # ":")

(***************************************************************************)
(* ValidationService: data, schemas, validate, sanitizeHtml                *)
(*                                                                         *)
(* HTML content is a sequence of nodes [tag, attrs]; attrs is a set of     *)
(* [name, value] with value a sequence of characters.  A data value is     *)
(* [kind, html, fields]: kind "undefined", "string" (html is its content)  *)
(* or "object" (fields maps field names to [kind, html] values).           *)
(***************************************************************************)
NoFields == [f \in {} |-> Undefined]
UndefinedData == [kind |-> "undefined", html |-> <<>>, fields |-> NoFields]
UndefinedSchema == [kind |-> "undefined", shape |-> NoFields]

Text == [tag |-> "#text", attrs |-> {}]
Element(tag, attrs) == [tag |-> tag, attrs |-> attrs]
Attr(name, value) == [name |-> name, value |-> value]

ALLOWED_TAGS == {"p", "br", "strong", "em", "u", "h1", "h2", "h3", "h4", "h5", "h6",
                 "ul", "ol", "li", "blockquote", "code", "pre", "a", "img", "table",
                 "thead", "tbody", "tr", "th", "td", "div", "span", "hr"}
ALLOWED_ATTR == {"href", "src", "alt", "title", "class", "id", "style",
                 "target", "rel", "width", "height"}
ADD_ATTR == {"target"}
FORBID_TAGS == {"script", "object", "embed", "form", "input", "button"}
FORBID_ATTR == {"onclick", "onerror", "onload", "onmouseover"}

\* an attribute survives if its name is allow-listed and not forbidden and,
\* for href/src, its value is empty or passes the URI allow-list
attrAllowed(a) ==
    /\ a.name \in ALLOWED_ATTR \cup ADD_ATTR
    /\ a.name \notin FORBID_ATTR
    /\ a.name \in {"href", "src"} => (a.value = <<>> \/ ALLOWED_URI_REGEXP(a.value))

\* a node survives if it is text or an allow-listed, not forbidden element
tagAllowed(n) == n.tag = "#text" \/ (n.tag \in ALLOWED_TAGS /\ n.tag \notin FORBID_TAGS)

\* domPurify.sanitize(content, config): forbidden elements are dropped with
\* their content, surviving elements lose their disallowed attributes
sanitizeHtml(content) ==
    LET kept == SelectSeq(content, tagAllowed)
    IN  [i \in 1..Len(kept) |->
            [tag |-> kept[i].tag, attrs |-> {a \in kept[i].attrs : attrAllowed(a)}]]

\* schema.parse(data) for the schema kinds of the model: the list of issues
\* (path, message) zod reports; empty iff the data conforms
zodIssues(data, schema) ==
    IF schema.kind = "string"
    THEN IF data.kind = "string" THEN {} ELSE {[path |-> "", message |-> "Expected string"]}
    ELSE IF data.kind # "object"
         THEN {[path |-> "", message |-> "Expected object"]}
         ELSE {[path |-> f, message |-> "Required"] :
                    f \in {g \in DOMAIN schema.shape : g \notin DOMAIN data.fields}}
              \cup
              {[path |-> f, message |-> "Invalid type"] :
                    f \in {g \in DOMAIN schema.shape \cap DOMAIN data.fields :
                                data.fields[g].kind # schema.shape[g]}}

\* the value schema.parse returns: z.object strips the keys the shape does not name
zodParsed(data, schema) ==
    IF schema.kind = "string" THEN data
    ELSE [data EXCEPT !.fields = [f \in DOMAIN schema.shape \cap DOMAIN data.fields |->
                                        data.fields[f]]]

\* a call's outcome: err is NoError and value the result, or err is the
\* SecurityError thrown
Returned(value) == [err |-> NoError, value |-> value]
Thrown(err) == [err |-> err, value |-> UndefinedData]

\* an error that is not a ZodError and not a SecurityError (e.g. a TypeError
\* thrown inside the schema's own code)
SecurityErrorCode == {"PERMISSION_DENIED", "INVALID_INPUT", "SANDBOX_VIOLATION",
                      "AUTHENTICATION_REQUIRED", "RATE_LIMIT_EXCEEDED"}
UnexpectedError == [code |-> "not-a-SecurityError", details |-> <<>>]
\* error instanceof SecurityError
IsSecurityError(err) == err.code \in SecurityErrorCode

\* a schema of kind "throwing" makes schema.parse throw an unexpected error,
\* which validate re-throws
validate(data, schema) ==
    IF schema.kind = "throwing" THEN Thrown(UnexpectedError)
    ELSE IF zodIssues(data, schema) # {}
    THEN Thrown(SecurityError("INVALID_INPUT",
                              [issues |-> zodIssues(data, schema), received |-> data]))
    ELSE Returned(zodParsed(data, schema))

htmlFields == {"content", "description", "notes", "html"}

containsHtmlContent(obj) ==
    IF obj.kind # "object" THEN FALSE
    ELSE \E field \in htmlFields : field \in DOMAIN obj.fields /\ obj.fields[field].kind = "string"

sanitizeHtmlInObject(obj) ==
    IF obj.kind # "object" THEN obj
    ELSE [obj EXCEPT !.fields =
            [f \in DOMAIN obj.fields |->
                IF f \in htmlFields /\ obj.fields[f].kind = "string"
                THEN [obj.fields[f] EXCEPT !.html = sanitizeHtml(obj.fields[f].html)]
                ELSE obj.fields[f]]]

validateAndSanitize(data, schema) ==
    LET validated == validate(data, schema)
    IN  IF validated.err.code # "none" THEN validated
        ELSE IF containsHtmlContent(validated.value)
             THEN Returned(sanitizeHtmlInObject(validated.value))
             ELSE validated

(***************************************************************************)
(* SecureComponent / useSecureData: the authorization gate                 *)
(***************************************************************************)
MaxAttempts == 2   \* effect runs (authorization attempts) per behaviour

\* JavaScript truthiness of `data` and of `validationSchema`
Truthy(data) == data.kind = "object" \/ (data.kind = "string" /\ data.html # <<>>)
SchemaGiven(schema) == schema.kind # "undefined"

\* useState initial value
InitialState == [isAuthorized |-> FALSE, validatedData |-> UndefinedData,
                 error |-> NoError, isLoading |-> TRUE]

\* setState(prev => ({...prev, isLoading: true, error: undefined}))
Checking(prev) == [prev EXCEPT !.isLoading = TRUE, !.error = NoError]
\* setState({isAuthorized: true, validatedData, isLoading: false})
Authorized(validatedData) == [isAuthorized |-> TRUE, validatedData |-> validatedData,
                              error |-> NoError, isLoading |-> FALSE]
\* setState({isAuthorized: false, error: securityError, isLoading: false})
Denied(securityError) == [isAuthorized |-> FALSE, validatedData |-> UndefinedData,
                          error |-> securityError, isLoading |-> FALSE]

\* variant: the length test is missing, the engine alone decides
hasPermissions_engineOnly(p) == hasAnyPermission(p.user, p.requiredPermissions)

\* Step 1 of validateAndAuthorize
hasPermissions(p) ==
    Len(p.requiredPermissions) = 0 \/ hasAnyPermission(p.user, p.requiredPermissions)

InsufficientPermissions(p) ==
    SecurityError("PERMISSION_DENIED",
                  [requiredPermissions |-> p.requiredPermissions, userId |-> p.user.id])

\* variant: the data is validated before the permissions are looked at
syncStep_validatesFirst(p) ==
    IF Truthy(p.data) /\ SchemaGiven(p.validationSchema) THEN "await"
    ELSE IF ~hasPermissions(p) THEN "denied"
    ELSE "authorized"

\* the synchronous part of validateAndAuthorize, up to its first await or
\* its final setState: which way the attempt goes
syncStep(p) ==
    IF ~hasPermissions(p) THEN "denied"
    ELSE IF Truthy(p.data) /\ SchemaGiven(p.validationSchema) THEN "await"
    ELSE "authorized"

\* variant: the catch block stores whatever was thrown
Settled_storesAnyError(outcome) ==
    IF outcome.err.code = "none" THEN Authorized(outcome.value) ELSE Denied(outcome.err)

\* the setState that ends an attempt whose await has settled with `outcome`;
\* the catch block replaces an error that is not a SecurityError
Settled(outcome) ==
    IF outcome.err.code = "none" THEN Authorized(outcome.value)
    ELSE IF IsSecurityError(outcome.err) THEN Denied(outcome.err)
    ELSE Denied(SecurityError("INVALID_INPUT", <<>>))

\* inputs of the gate
GateUsers ==
    {[id |-> "u1", isActive |-> TRUE,
      permissions |-> <<[resource |-> "docs", action |-> "read", scope |-> "project"]>>],
     [id |-> "u1", isActive |-> FALSE,
      permissions |-> <<[resource |-> "docs", action |-> "read", scope |-> "project"]>>],
     [id |-> "u1", isActive |-> TRUE, permissions |-> <<>>]}
GateRequired == {<<>>,
                 <<[resource |-> "docs", action |-> "configure", scope |-> "global"],
                   [resource |-> "docs", action |-> "read", scope |-> "own"]>>}

StringField(html) == [kind |-> "string", html |-> html]
NumberField == [kind |-> "number", html |-> <<>>]
JsHref == <<"j", "a", "v", "a", "s", "c", "r", "i", "p", "t", ":", "x">>
HttpHref == <<"h", "t", "t", "p", ":", "/", "/", "x">>
UnsafeHtml == <<Element("script", {}), Element("p", {Attr("onclick", <<"x">>), Attr("class", <<"c">>)}),
                Text, Element("a", {Attr("href", JsHref)}), Element("a", {Attr("href", HttpHref)})>>
ObjectData(fields) == [kind |-> "object", html |-> <<>>, fields |-> fields]
EmptyString == [kind |-> "string", html |-> <<>>, fields |-> NoFields]
\* conforms to DocSchema, carries markup in content and an extra key
ValidDoc == ObjectData([f \in {"title", "content", "extra"} |->
                CASE f = "title" -> StringField(<<Element("script", {})>>)
                  [] f = "content" -> StringField(UnsafeHtml)
                  [] f = "extra" -> NumberField])
\* violates DocSchema: title missing, content of the wrong type
InvalidDoc == ObjectData([f \in {"content"} |-> NumberField])
GateData == {UndefinedData, EmptyString, ValidDoc, InvalidDoc}

DocSchema == [kind |-> "object",
              shape |-> [f \in {"title", "content"} |-> "string"]]
\* a schema whose parse throws something that is not a ZodError
ThrowingSchema == [kind |-> "throwing", shape |-> NoFields]
GateSchemas == {UndefinedSchema, DocSchema, ThrowingSchema}

GateProps == [user : GateUsers, requiredPermissions : GateRequired,
              data : GateData, validationSchema : GateSchemas]
NoProps == [user |-> [id |-> "u1", isActive |-> FALSE, permissions |-> <<>>],
            requiredPermissions |-> <<>>, data |-> UndefinedData,
            validationSchema |-> UndefinedSchema]

(***************************************************************************)
(* Specification of the permission engine: a User record is fixed and the  *)
(* engine's operations are called on it with inputs from bounded sets.     *)
(***************************************************************************)
\* requirement lists handed to hasAnyPermission are drawn from this pool
ReqPool == {[resource |-> "docs", action |-> "read", scope |-> "own"],
            [resource |-> "docs", action |-> "read", scope |-> "global"],
            [resource |-> "docs", action |-> "read", scope |-> Undefined],
            [resource |-> "*", action |-> "configure", scope |-> "global"]}
ItemIds == {"i1", "i2"}
\* Omit<Permission, 'scope'>; WithScope overwrites the scope anyway
ScopelessReqs == {p \in Permission : p.scope = Undefined}

NoCall == [op |-> "none", perm |-> AdminGrant, perms |-> <<>>, items |-> <<>>,
           resource |-> Undefined, bool |-> FALSE, seq |-> <<>>, err |-> NoError]

\* one run of validateAndSanitize: where it stands (pc), its arguments, the
\* value validate returned, the copy sanitizeHtmlInObject works on (work),
\* the loop index over its field list (i), the arguments sanitizeHtml was
\* called with so far (sanitized) and the outcome (result)
PipeRun(pc, data, schema) ==
    [pc |-> pc, data |-> data, schema |-> schema, validated |-> UndefinedData,
     work |-> UndefinedData, i |-> 0, sanitized |-> <<>>, result |-> Returned(UndefinedData)]

PipeIdle == pipe = PipeRun("idle", UndefinedData, UndefinedSchema)

GateIdle ==
    /\ state = InitialState
    /\ props = NoProps
    /\ pending = {}
    /\ attempts = 0
    /\ sanitizeCalls = 0

UriIdle == uri = <<>> /\ uriOk = "untested"

PermIdle == user = [id |-> "u1", isActive |-> FALSE, permissions |-> <<>>] /\ call = NoCall

InitPerm ==
    /\ user \in User
    /\ call = NoCall
    /\ UriIdle
    /\ GateIdle
    /\ PipeIdle

\* one engine call per behaviour: the operations are pure and keep no state
PermFrame == UNCHANGED <<user, uri, uriOk, state, props, pending, attempts, sanitizeCalls, pipe>>

CallHasPermission ==
    \E permission \in Permission :
        /\ call = NoCall
        /\ call' = [NoCall EXCEPT !.op = "hasPermission", !.perm = permission,
                              !.bool = hasPermission(user, permission)]
        /\ PermFrame

CallHasAnyPermission ==
    \E permissions \in SeqUpTo(ReqPool, MaxReq) :
        /\ call = NoCall
        /\ call' = [NoCall EXCEPT !.op = "hasAnyPermission", !.perms = permissions,
                              !.bool = hasAnyPermission(user, permissions)]
        /\ PermFrame

CallFilterByPermissions ==
    \E items \in SeqUpTo(ItemIds, MaxItems), requiredPermission \in ScopelessReqs :
        /\ call = NoCall
        /\ call' = [NoCall EXCEPT !.op = "filterByPermissions", !.items = items,
                              !.perm = requiredPermission,
                              !.seq = filterByPermissions(user, items, requiredPermission)]
        /\ PermFrame

CallRequirePermission ==
    \E permission \in ReqPool, resource \in {Undefined, "doc-1"} :
        /\ call = NoCall
        /\ call' = [NoCall EXCEPT !.op = "requirePermission", !.perm = permission,
                              !.resource = resource,
                              !.err = requirePermission(user, permission, resource)]
        /\ PermFrame

CallGetPermissionsForResource ==
    \E resource \in Resources \cup {"notes"} :
        /\ call = NoCall
        /\ call' = [NoCall EXCEPT !.op = "getPermissionsForResource", !.resource = resource,
                              !.seq = getPermissionsForResource(user, resource)]
        /\ PermFrame

CallIsGlobalAdmin ==
    /\ call = NoCall
    /\ call' = [NoCall EXCEPT !.op = "isGlobalAdmin", !.bool = isGlobalAdmin(user)]
    /\ PermFrame

NextPerm ==
    \/ CallHasPermission
    \/ CallHasAnyPermission
    \/ CallFilterByPermissions
    \/ CallRequirePermission
    \/ CallGetPermissionsForResource
    \/ CallIsGlobalAdmin

SpecPerm == InitPerm /\ [][NextPerm]_vars

(***************************************************************************)
(* Properties of the permission engine (checked under SpecPerm)            *)
(***************************************************************************)
Grants == {user.permissions[i] : i \in 1..Len(user.permissions)}
SameResourceAction(g, r) == g.resource = r.resource /\ g.action = r.action
\* exactly one of the two scopes is omitted
OneSideOmitted(g, r) == (g.scope = Undefined) # (r.scope = Undefined)
Rank(scope) == CASE scope = "own" -> 1 [] scope = "project" -> 2 [] scope = "global" -> 3

\* C1 (as stated): if every grant with the required resource and action
\* differs from the requirement by exactly one side omitting its scope,
\* hasPermission is false.
C1_OmittedScopeNeverMatches ==
    (call.op = "hasPermission"
        /\ \A g \in Grants : SameResourceAction(g, call.perm) => OneSideOmitted(g, call.perm))
    => ~call.bool

\* C1 (amended): the same, except that a grant whose scope is global does
\* satisfy a requirement that omits its scope; in every other pairing with
\* exactly one scope omitted hasPermission is false.
C1_OmittedScopeMatchesOnlyGlobalGrant ==
    (call.op = "hasPermission"
        /\ \A g \in Grants : SameResourceAction(g, call.perm) =>
                (OneSideOmitted(g, call.perm) /\ g.scope # "global"))
    => ~call.bool

C1_Witness ==
    /\ call.op = "hasPermission" /\ user.isActive /\ ~call.bool
    /\ call.perm.scope = "own"
    /\ \E g \in Grants : SameResourceAction(g, call.perm) /\ g.scope = Undefined
    /\ \A g \in Grants : SameResourceAction(g, call.perm) /\ OneSideOmitted(g, call.perm)

\* C5 (as stated): getPermissionsForResource returns the empty sequence for
\* every inactive user.
C5_InactiveHasNoResourcePermissions ==
    (call.op = "getPermissionsForResource" /\ ~user.isActive) => call.seq = <<>>

\* C6: for an inactive user hasPermission, hasAnyPermission and isGlobalAdmin
\* are false, filterByPermissions is empty and requirePermission fails with
\* PERMISSION_DENIED, whatever the permission list holds.
C6_InactiveUserHasNothing ==
    ~user.isActive =>
        /\ call.op \in {"hasPermission", "hasAnyPermission", "isGlobalAdmin"} => ~call.bool
        /\ call.op = "filterByPermissions" => call.seq = <<>>
        /\ call.op = "requirePermission" => call.err.code = "PERMISSION_DENIED"

C6_Witness ==
    /\ ~user.isActive
    /\ call.op = "hasPermission" /\ ~call.bool
    /\ call.perm \in Grants

\* C7: an active user holding a global-scope grant passes every requirement
\* with the same resource and action, whatever scope it asks for.
C7_GlobalGrantSatisfiesAnyScope ==
    (call.op = "hasPermission" /\ user.isActive
        /\ \E g \in Grants : SameResourceAction(g, call.perm) /\ g.scope = "global")
    => call.bool

C7_Witness ==
    /\ call.op = "hasPermission" /\ user.isActive /\ call.bool
    /\ call.perm.scope = Undefined
    /\ \A g \in Grants : g.scope = "global"
    /\ \E g \in Grants : SameResourceAction(g, call.perm)

\* C8: when the requirement and all grants are scoped, an active user passes
\* iff some grant with the same resource and action has a scope of rank at
\* least the required one (own < project < global).
C8_ScopeHierarchy ==
    (call.op = "hasPermission" /\ user.isActive /\ call.perm.scope # Undefined
        /\ \A g \in Grants : g.scope # Undefined)
    => (call.bool <=> \E g \in Grants : /\ SameResourceAction(g, call.perm)
                                        /\ Rank(g.scope) >= Rank(call.perm.scope))

C8_Witness ==
    /\ call.op = "hasPermission" /\ user.isActive /\ ~call.bool
    /\ call.perm.scope = "project"
    /\ Grants = {WithScope(call.perm, "own")}

\* C9 (as stated): isGlobalAdmin is true iff the permission list contains
\* the grant {"*", configure, global}.
C9_AdminIffListHoldsGrant ==
    call.op = "isGlobalAdmin" => (call.bool <=> AdminGrant \in Grants)

\* C9 (amended): isGlobalAdmin is true iff the user is active and the
\* permission list contains the grant {"*", configure, global}.
C9_AdminIffActiveAndListHoldsGrant ==
    call.op = "isGlobalAdmin" => (call.bool <=> (user.isActive /\ AdminGrant \in Grants))

C9_Witness ==
    /\ call.op = "isGlobalAdmin" /\ user.isActive /\ ~call.bool
    /\ [resource |-> "docs", action |-> "configure", scope |-> "global"] \in Grants
    /\ [resource |-> "*", action |-> "configure", scope |-> Undefined] \in Grants

(***************************************************************************)
(* Specification of the URI allow-list: a value is drawn and tested.       *)
(***************************************************************************)
UriHeads == {<<"h", "t", "t", "p">>,
             <<"h", "t", "t", "p", "s">>,
             <<"f", "t", "p">>,
             <<"f", "t", "p", "s">>,
             <<"m", "a", "i", "l", "t", "o">>,
             <<"t", "e", "l">>,
             <<"c", "a", "l", "l", "t", "o">>,
             <<"c", "i", "d">>,
             <<"x", "m", "p", "p">>,
             <<"x", "x", "x">>,
             <<"j", "a", "v", "a", "s", "c", "r", "i", "p", "t">>,
             <<"d", "a", "t", "a">>,
             <<"f", "i", "l", "e">>,
             <<"h", "t", "p">>,
             <<"H", "T", "T", "P">>,
             <<"J", "a", "v", "a", "S", "c", "r", "i", "p", "t">>,
             <<"a", "+", "b">>,
             <<"x", ".", "y">>,
             <<"h", "2">>,
             <<>>,
             <<"1", "a">>,
             <<"-", "a">>}
UriSeparators == {<<":">>, <<"/">>, <<"#">>, <<"?">>, <<>>}
UriTails == {<<>>, <<"x">>, <<"/", "/", "x", ":", "1">>}
UriInputs == {h \o p \o t : h \in UriHeads, p \in UriSeparators, t \in UriTails}

InitUri ==
    /\ uri \in UriInputs
    /\ uriOk = "untested"
    /\ PermIdle
    /\ GateIdle
    /\ PipeIdle

TestUri ==
    /\ uriOk = "untested"
    /\ uriOk' = IF ALLOWED_URI_REGEXP(uri) THEN "accepted" ELSE "rejected"
    /\ UNCHANGED <<uri, user, call, state, props, pending, attempts, sanitizeCalls, pipe>>

NextUri == TestUri

SpecUri == InitUri /\ [][NextUri]_vars

(***************************************************************************)
(* Properties of the URI allow-list (checked under SpecUri)                *)
(***************************************************************************)
\* the value starts with a letter and its leading run of letters, "+", "."
\* and "-" is immediately followed by ":"
HasScheme(s) ==
    /\ Len(s) >= 1 /\ IsAlpha(s[1])
    /\ RunLen(s) < Len(s) /\ s[RunLen(s) + 1] = ":"
SchemeOf(s) == [i \in 1..RunLen(s) |-> Lower(s[i])]

ClaimedSchemes == {<<"h", "t", "t", "p">>,
                   <<"h", "t", "t", "p", "s">>,
                   <<"m", "a", "i", "l", "t", "o">>,
                   <<"t", "e", "l">>,
                   <<"c", "a", "l", "l", "t", "o">>,
                   <<"c", "i", "d">>,
                   <<"x", "m", "p", "p">>}

\* C4 (as stated): a value is accepted only if it has no scheme or its scheme
\* is one of http, https, mailto, tel, callto, cid, xmpp; every value with
\* another scheme followed by ":" is rejected.
C4_OnlyClaimedSchemesAccepted ==
    /\ uriOk = "accepted" => (~HasScheme(uri) \/ SchemeOf(uri) \in ClaimedSchemes)
    /\ (HasScheme(uri) /\ SchemeOf(uri) \notin ClaimedSchemes /\ uriOk # "untested")
            => uriOk = "rejected"

\* C4 (amended): the accepted schemes are http, https, ftp, ftps, mailto, tel,
\* callto, cid, xmpp and xxx (any case), where the scheme is the leading run
\* of letters, "+", "." and "-" immediately followed by ":"; a value is
\* accepted only if it has no such scheme or its scheme is in that list, and
\* every value with another such scheme is rejected.
C4_OnlyRegexSchemesAccepted ==
    /\ uriOk = "accepted" => (~HasScheme(uri) \/ SchemeOf(uri) \in RegexSchemes)
    /\ (HasScheme(uri) /\ SchemeOf(uri) \notin RegexSchemes /\ uriOk # "untested")
            => uriOk = "rejected"

C4_Witness ==
    /\ uriOk = "rejected"
    /\ HasScheme(uri)
    /\ SchemeOf(uri) = <<"j", "a", "v", "a", "s", "c", "r", "i", "p", "t">>

(***************************************************************************)
(* Specification of the gate: the effect runs whenever user,               *)
(* requiredPermissions, data or validationSchema change; an attempt that   *)
(* reaches `await validateAndSanitize` stays pending until its promise     *)
(* settles.  The effect has no cleanup, so earlier attempts stay pending   *)
(* when a later one starts.                                                *)
(***************************************************************************)
Init ==
    /\ GateIdle
    /\ PermIdle
    /\ UriIdle
    /\ PipeIdle

\* useEffect body: validateAndAuthorize() called with the current props
RunEffect ==
    /\ attempts < MaxAttempts
    /\ \E p \in GateProps :
        /\ props' = p
        /\ attempts' = attempts + 1
        /\ CASE syncStep(p) = "denied" ->
                    /\ state' = Denied(InsufficientPermissions(p))
                    /\ UNCHANGED <<pending, sanitizeCalls>>
             [] syncStep(p) = "await" ->
                    /\ state' = Checking(state)
                    /\ pending' = pending \cup {[id |-> attempts + 1, props |-> p]}
                    /\ sanitizeCalls' = sanitizeCalls + 1
             [] syncStep(p) = "authorized" ->
                    /\ state' = Authorized(UndefinedData)
                    /\ UNCHANGED <<pending, sanitizeCalls>>
    /\ UNCHANGED <<user, call, uri, uriOk, pipe>>

\* the promise of a pending attempt settles and the attempt runs to its end
Settle ==
    /\ \E a \in pending :
        /\ state' = Settled(validateAndSanitize(a.props.data, a.props.validationSchema))
        /\ pending' = pending \ {a}
    /\ UNCHANGED <<props, attempts, sanitizeCalls, user, call, uri, uriOk, pipe>>

Next == RunEffect \/ Settle

Spec == Init /\ [][Next]_vars

(***************************************************************************)
(* Properties of the gate (checked under Spec)                             *)
(***************************************************************************)
\* data and a schema were handed to the gate
Supplied(p) == p.data.kind # "undefined" /\ SchemaGiven(p.validationSchema)

\* the state shows the same outcome as s (errors compared by their code)
SameOutcome(s, t) ==
    /\ s.isLoading = t.isLoading
    /\ s.isAuthorized = t.isAuthorized
    /\ s.validatedData = t.validatedData
    /\ s.error.code = t.error.code

\* what one attempt with inputs p, run alone, leaves in the gate state
FinalState(p) ==
    CASE syncStep(p) = "denied" -> Denied(InsufficientPermissions(p))
      [] syncStep(p) = "await" -> Settled(validateAndSanitize(p.data, p.validationSchema))
      [] syncStep(p) = "authorized" -> Authorized(UndefinedData)

\* C2 (as stated): an attempt whose permission check passes and that was
\* given data and a schema runs validateAndSanitize on that data (it becomes
\* pending on it), and when it settles the gate is Authorized with exactly
\* the pipeline's output or Denied with the pipeline's error.
C2_SuppliedDataIsValidated ==
    [][ /\ (attempts' = attempts + 1 /\ Supplied(props') /\ hasPermissions(props'))
            => \E a \in pending' \ pending : a.props = props'
        /\ \A a \in pending \ pending' :
            SameOutcome(state', Settled(validateAndSanitize(a.props.data,
                                                            a.props.validationSchema)))
      ]_vars

\* C3 (as stated): once no attempt is pending, the gate state is the outcome
\* of the most recent attempt's inputs.
C3_SettlesInLatestAttempt ==
    (attempts > 0 /\ pending = {}) => SameOutcome(state, FinalState(props))

\* C10: an attempt whose non-empty requiredPermissions are not satisfied
\* leaves the gate Denied with PERMISSION_DENIED at once, without invoking
\* validateAndSanitize and without becoming pending; INVALID_INPUT is never
\* written by the synchronous part of an attempt, and every attempt that
\* settles (the only source of INVALID_INPUT) passed its permission check.
C10_PermissionBeforeData ==
    [][ /\ (/\ attempts' = attempts + 1
            /\ Len(props'.requiredPermissions) > 0
            /\ ~hasAnyPermission(props'.user, props'.requiredPermissions))
            => /\ ~state'.isLoading /\ ~state'.isAuthorized
               /\ state'.error.code = "PERMISSION_DENIED"
               /\ sanitizeCalls' = sanitizeCalls
               /\ pending' = pending
        /\ attempts' = attempts + 1 => state'.error.code # "INVALID_INPUT"
        /\ \A a \in pending \ pending' : hasPermissions(a.props)
      ]_vars

C10_Witness ==
    /\ attempts = 1 /\ sanitizeCalls = 0 /\ pending = {}
    /\ ~hasPermissions(props)
    /\ props.data = InvalidDoc /\ props.validationSchema = DocSchema
    /\ state.error.code = "PERMISSION_DENIED" /\ ~state.isAuthorized /\ ~state.isLoading

\* C11: an attempt with an empty requiredPermissions list is never refused
\* for permissions, whoever the user is, although hasAnyPermission(user, [])
\* is false; an attempt with a non-empty list is refused with
\* PERMISSION_DENIED iff hasPermission is false for every entry, and
\* hasAnyPermission is true iff hasPermission is true for some entry.
C11_EmptyRequirementPasses ==
    [][ attempts' = attempts + 1 =>
            LET u == props'.user
                required == props'.requiredPermissions
                somePasses == \E i \in 1..Len(required) : hasPermission(u, required[i])
            IN  /\ Len(required) = 0 =>
                    /\ ~hasAnyPermission(u, required)
                    /\ state'.error.code # "PERMISSION_DENIED"
                    /\ (state'.isAuthorized /\ ~state'.isLoading) \/ pending' # pending
                /\ Len(required) > 0 =>
                    /\ hasAnyPermission(u, required) <=> somePasses
                    /\ (state'.error.code = "PERMISSION_DENIED") <=> ~somePasses
      ]_vars

C11_Witness ==
    /\ attempts = 1 /\ pending = {}
    /\ ~props.user.isActive /\ Len(props.requiredPermissions) = 0
    /\ ~hasAnyPermission(props.user, props.requiredPermissions)
    /\ state.isAuthorized /\ ~state.isLoading /\ state.error.code = "none"

(***************************************************************************)
(* Further properties of the permission engine (checked under SpecPerm)    *)
(***************************************************************************)
\* C12: requirePermission throws exactly when hasPermission is false; what
\* it throws is a SecurityError with code PERMISSION_DENIED and details
\* {userId, requiredPermission, resource}; otherwise it returns normally.
\* No other engine operation throws.
C12_RequirePermissionThrowsOnDenial ==
    /\ call.op = "requirePermission" =>
        IF hasPermission(user, call.perm)
        THEN call.err.code = "none"
        ELSE /\ call.err.code = "PERMISSION_DENIED"
             /\ call.err.details = [userId |-> user.id, requiredPermission |-> call.perm,
                                    resource |-> call.resource]
    /\ call.op \in {"hasPermission", "hasAnyPermission", "filterByPermissions",
                    "getPermissionsForResource", "isGlobalAdmin"} => call.err.code = "none"

C12_Witness ==
    /\ call.op = "requirePermission" /\ call.err.code = "PERMISSION_DENIED"
    /\ user.isActive /\ Len(user.permissions) > 0
    /\ call.resource = "doc-1"

\* r is s with some elements left out, the others in their order
IsSubsequence(r, s) ==
    \E f \in [1..Len(r) -> 1..Len(s)] :
        /\ \A i \in 1..Len(r) : r[i] = s[f[i]]
        /\ \A i, j \in 1..Len(r) : i < j => f[i] < f[j]

\* C15: filterByPermissions returns a subsequence of items (original order,
\* nothing new, never longer); an active user holding a global grant with the
\* required resource and action gets all items.
C15_FilterReturnsSubsequence ==
    call.op = "filterByPermissions" =>
        /\ IsSubsequence(call.seq, call.items)
        /\ Len(call.seq) <= Len(call.items)
        /\ (user.isActive /\ \E g \in Grants : SameResourceAction(g, call.perm)
                                               /\ g.scope = "global")
                => call.seq = call.items

C15_Witness ==
    /\ call.op = "filterByPermissions" /\ user.isActive
    /\ Len(call.items) = MaxItems /\ call.seq = call.items
    /\ \E g \in Grants : SameResourceAction(g, call.perm) /\ g.scope = "global"

\* C18: filterByPermissions returns the whole list if hasPermission holds for
\* the requirement at own scope and the empty list otherwise; a user whose
\* only matching grant has no scope gets the empty list.
C18_FilterIsOwnScopeCheck ==
    call.op = "filterByPermissions" =>
        call.seq = IF hasPermission(user, WithScope(call.perm, "own"))
                   THEN call.items ELSE <<>>

C18_Witness ==
    /\ call.op = "filterByPermissions" /\ user.isActive
    /\ Len(call.items) > 0 /\ call.seq = <<>>
    /\ \E g \in Grants : SameResourceAction(g, call.perm)
    /\ \A g \in Grants : SameResourceAction(g, call.perm) => g.scope = Undefined

(***************************************************************************)
(* Specification of the pipeline: validateAndSanitize is run on data and a *)
(* schema drawn from bounded sets, one step per await.                     *)
(***************************************************************************)
NestedField == [kind |-> "object", html |-> UnsafeHtml]
SafeHtml == <<Element("p", {Attr("class", <<"c">>)}), Text, Element("a", {Attr("href", HttpHref)})>>
Absent == [kind |-> "absent", html |-> <<>>]

\* the object whose fields are the entries of choice that are not Absent
ObjectOf(choice) ==
    ObjectData([f \in {g \in DOMAIN choice : choice[g].kind # "absent"} |-> choice[f]])

PipeObjects ==
    {ObjectOf(choice) : choice \in
        [title : {Absent, StringField(<<Element("script", {})>>)},
         content : {Absent, StringField(UnsafeHtml), NumberField},
         notes : {StringField(SafeHtml), NumberField},
         html : {Absent, StringField(UnsafeHtml)},
         meta : {Absent, NestedField}]}
PipeData == PipeObjects \cup {EmptyString, [kind |-> "string", html |-> UnsafeHtml, fields |-> NoFields]}

\* notes is numeric here, html is not part of the shape
NotesSchema == [kind |-> "object",
                shape |-> [f \in {"title", "content", "notes", "meta"} |->
                            CASE f = "notes" -> "number"
                              [] f = "meta" -> "object"
                              [] OTHER -> "string"]]
\* every markup field is a string here
MarkupSchema == [kind |-> "object",
                 shape |-> [f \in {"content", "notes", "html"} |-> "string"]]
StringSchema == [kind |-> "string", shape |-> NoFields]
PipeSchemas == {NotesSchema, MarkupSchema, StringSchema}

\* variant: title is treated as a markup field too
htmlFieldOrder_withTitle == <<"content", "description", "notes", "html", "title">>

\* the field list of sanitizeHtmlInObject, in loop order
htmlFieldOrder == <<"content", "description", "notes", "html">>

PipeFrame == UNCHANGED <<user, call, uri, uriOk, state, props, pending, attempts, sanitizeCalls>>

InitPipe ==
    /\ pipe \in {PipeRun("start", data, schema) : data \in PipeData, schema \in PipeSchemas}
    /\ PermIdle
    /\ UriIdle
    /\ GateIdle

\* const validatedData = await this.validate(data, schema)
PipeValidate ==
    /\ pipe.pc = "start"
    /\ LET outcome == validate(pipe.data, pipe.schema)
       IN  pipe' = IF outcome.err.code # "none"
                   THEN [pipe EXCEPT !.pc = "thrown", !.result = outcome]
                   ELSE [pipe EXCEPT !.pc = "validated", !.validated = outcome.value]
    /\ PipeFrame

\* variant: the raw input is inspected and copied instead of the validated value
PipeDetect_inspectsRaw ==
    /\ pipe.pc = "validated"
    /\ pipe' = IF containsHtmlContent(pipe.data)
               THEN [pipe EXCEPT !.pc = "sanitizing", !.work = pipe.data, !.i = 1]
               ELSE [pipe EXCEPT !.pc = "returned", !.result = Returned(pipe.validated)]
    /\ PipeFrame

\* if (this.containsHtmlContent(validatedData)) ... const result = { ...obj }
PipeDetect ==
    /\ pipe.pc = "validated"
    /\ pipe' = IF containsHtmlContent(pipe.validated)
               THEN [pipe EXCEPT !.pc = "sanitizing", !.work = pipe.validated, !.i = 1]
               ELSE [pipe EXCEPT !.pc = "returned", !.result = Returned(pipe.validated)]
    /\ PipeFrame

\* one iteration of `for (const field of htmlFields)` in sanitizeHtmlInObject
PipeSanitizeField ==
    /\ pipe.pc = "sanitizing"
    /\ pipe.i <= Len(htmlFieldOrder)
    /\ LET field == htmlFieldOrder[pipe.i]
       IN  pipe' = IF field \in DOMAIN pipe.work.fields /\ pipe.work.fields[field].kind = "string"
                   THEN [pipe EXCEPT
                            !.work.fields[field].html = sanitizeHtml(pipe.work.fields[field].html),
                            !.sanitized = Append(pipe.sanitized,
                                                 [field |-> field,
                                                  content |-> pipe.work.fields[field].html]),
                            !.i = pipe.i + 1]
                   ELSE [pipe EXCEPT !.i = pipe.i + 1]
    /\ PipeFrame

\* return result as T
PipeReturn ==
    /\ pipe.pc = "sanitizing"
    /\ pipe.i > Len(htmlFieldOrder)
    /\ pipe' = [pipe EXCEPT !.pc = "returned", !.result = Returned(pipe.work)]
    /\ PipeFrame

NextPipe == PipeValidate \/ PipeDetect \/ PipeSanitizeField \/ PipeReturn

SpecPipe == InitPipe /\ [][NextPipe]_vars

(***************************************************************************)
(* Properties of the pipeline (checked under SpecPipe)                     *)
(***************************************************************************)
PipeEnded == pipe.pc \in {"thrown", "returned"}

\* the step-by-step run ends as the operator validateAndSanitize says
PipeAgreesWithOperator ==
    PipeEnded => pipe.result = validateAndSanitize(pipe.data, pipe.schema)

\* C13: if the data violates the schema, the run ends at validate with a
\* SecurityError INVALID_INPUT whose details are the schema issues and the
\* received data, and sanitizeHtml is never called; a run throws only on a
\* schema violation; every sanitizeHtml call is on a string field of the
\* validated value, never on a field only the raw input has.
C13_ValidateBeforeSanitize ==
    /\ (pipe.pc \notin {"idle", "start"} /\ zodIssues(pipe.data, pipe.schema) # {}) =>
            /\ pipe.pc = "thrown"
            /\ pipe.result.err.code = "INVALID_INPUT"
            /\ pipe.result.err.details = [issues |-> zodIssues(pipe.data, pipe.schema),
                                          received |-> pipe.data]
            /\ pipe.sanitized = <<>>
    /\ pipe.pc = "thrown" => zodIssues(pipe.data, pipe.schema) # {}
    /\ \A k \in 1..Len(pipe.sanitized) :
            LET s == pipe.sanitized[k]
            IN  /\ s.field \in DOMAIN pipe.validated.fields
                /\ pipe.validated.fields[s.field] = StringField(s.content)

C13_Witness ==
    /\ pipe.pc = "thrown" /\ pipe.sanitized = <<>>
    /\ pipe.data.kind = "object"
    /\ "content" \in DOMAIN pipe.data.fields
    /\ pipe.data.fields["content"] = StringField(UnsafeHtml)
    /\ \E issue \in pipe.result.err.details.issues : issue.path = "title"

C17_ResolvedIsAuthorizedOrDenied ==
    /\ [](/\ attempts = 0 => state = InitialState
          /\ state.isLoading => state.error.code = "none"
          /\ ~state.isLoading =>
                \/ state.isAuthorized /\ state.error.code = "none"
                \/ /\ ~state.isAuthorized
                   /\ state.validatedData = UndefinedData
                   /\ state.error.code \in {"PERMISSION_DENIED", "INVALID_INPUT"})
    /\ [][ \A a \in pending \ pending' :
                ~IsSecurityError(validateAndSanitize(a.props.data, a.props.validationSchema).err)
                /\ validateAndSanitize(a.props.data, a.props.validationSchema).err.code # "none"
                => /\ ~state'.isLoading /\ ~state'.isAuthorized
                   /\ state'.error.code = "INVALID_INPUT"
         ]_vars

C17_Witness ==
    /\ attempts = 1 /\ pending = {}
    /\ props.validationSchema = ThrowingSchema
    /\ ~state.isLoading /\ ~state.isAuthorized
    /\ state.error.code = "INVALID_INPUT"
    /\ state.validatedData = UndefinedData

====
